---- MODULE Spec2Model ----
(***************************************************************************)
(* A model of tinycss2's tokenizer (src/tinycss2/tokenizer.py):            *)
(* parse_component_value_list and the consumers it calls.                  *)
(*                                                                         *)
(* Text is a sequence of code points (naturals).  Positions are Python's   *)
(* 0-based indices: At(s, p) is s[p], Slice(s, a, b) is s[a:b].            *)
(*                                                                         *)
(* The token lists of the program are Python lists shared by reference     *)
(* (root, tokens, the content of a block, the entries of the stack).  The  *)
(* model keeps every token ever created in `nodes`, in creation order; a   *)
(* list is named by its owner: 0 is the root list, k > 0 is the content    *)
(* (or arguments) list of the block nodes[k].  A token's `parent` is the   *)
(* list it was appended to, so the elements of list k are the nodes with   *)
(* parent k, in order.                                                     *)
(*                                                                         *)
(* Not modelled: float(repr_) and int(repr_) of a number (the token keeps  *)
(* the matched text and whether int_value is present), and the texts the   *)
(* serializer returns (a String or URL token keeps the number of           *)
(* characters trimmed from its repr).                                      *)
(***************************************************************************)
EXTENDS Integers, Sequences, FiniteSets, TLC

VARIABLES raw, css, skip_comments, pos, token_start_pos, line, last_newline,
          nodes, tokens, end_char, stack, pc

vars == <<raw, css, skip_comments, pos, token_start_pos, line, last_newline,
          nodes, tokens, end_char, stack, pc>>

----------------------------------------------------------------------------
(* Characters *)

Printable ==
  << " ", "!", "\"", "#", "$", "%", "&", "'", "(", ")", "*", "+", ",", "-",
     ".", "/", "0", "1", "2", "3", "4", "5", "6", "7", "8", "9", ":", ";",
     "<", "=", ">", "?", "@", "A", "B", "C", "D", "E", "F", "G", "H", "I",
     "J", "K", "L", "M", "N", "O", "P", "Q", "R", "S", "T", "U", "V", "W",
     "X", "Y", "Z", "[", "\\", "]", "^", "_", "backtick", "a", "b", "c", "d", "e",
     "f", "g", "h", "i", "j", "k", "l", "m", "n", "o", "p", "q", "r", "s",
     "t", "u", "v", "w", "x", "y", "z", "{", "|", "}", "~" >>

\* ord() of a printable ASCII character
Ch(s) == 31 + (CHOOSE i \in 1..Len(Printable) : Printable[i] = s)

\* The code points of a string literal of the source, given as characters
Str(t) == [i \in 1..Len(t) |-> Ch(t[i])]

NUL == 0
TAB == 9
LF == 10
FF == 12
CR == 13
DEL == 127
REPLACEMENT == 65533
MAXUNICODE == 1114111

\* None (end_char at the top level)
NONE == -1

SPACE == Ch(" ")
QUOTE == Ch("\"")
APOS == Ch("'")
BACKSLASH == Ch("\\")
LPAREN == Ch("(")
RPAREN == Ch(")")
LBRACE == Ch("{")
RBRACE == Ch("}")
LBRACKET == Ch("[")
RBRACKET == Ch("]")
HYPHEN == Ch("-")
PLUS == Ch("+")
DOT == Ch(".")
QMARK == Ch("?")
SLASH == Ch("/")
STAR == Ch("*")
PERCENT == Ch("%")
EQUALS == Ch("=")
ATSIGN == Ch("@")
HASH == Ch("#")
UNDERSCORE == Ch("_")
DIGIT0 == Ch("0")
LOWER_A == Ch("a")
UPPER_A == Ch("A")
UPPER_F == Ch("F")
LOWER_E == Ch("e")
UPPER_E == Ch("E")
LOWER_U == Ch("u")
UPPER_U == Ch("U")

\* The literals '-->', '<!--', '||', 'url', '*/' and '/*' of the source
CDC == Str(<<"-", "-", ">">>)
CDO == Str(<<"<", "!", "-", "-">>)
COLUMN == Str(<<"|", "|">>)
URL == Str(<<"u", "r", "l">>)
COMMENT_END == <<STAR, SLASH>>
COMMENT_START == <<SLASH, STAR>>
\* '~|^$*' (line 191)
MatchOperators == {Ch("~"), Ch("|"), Ch("^"), Ch("$"), STAR}

WhitespaceChars == {SPACE, LF, TAB}
QuoteChars == {QUOTE, APOS}
Digits == Ch("0")..Ch("9")
LowerLetters == Ch("a")..Ch("z")
UpperLetters == Ch("A")..Ch("Z")
HexDigits == Digits \cup (Ch("a")..Ch("f")) \cup (Ch("A")..Ch("F"))
NameStartChars == LowerLetters \cup UpperLetters \cup {UNDERSCORE}
NameChars == LowerLetters \cup UpperLetters \cup Digits \cup {HYPHEN, UNDERSCORE}
\* The non-printable characters of _consume_url
NonPrintable == (0..8) \cup {11} \cup (14..31) \cup {DEL}

----------------------------------------------------------------------------
(* str operations *)

At(s, p) == s[p + 1]

Slice(s, a, b) == SubSeq(s, a + 1, b)

\* s.startswith(t, p)
StartsWith(s, t, p) ==
  /\ p >= 0
  /\ p + Len(t) <= Len(s)
  /\ \A i \in 1..Len(t) : s[p + i] = t[i]

\* s.startswith((' ', '\n', '\t'), p)
StartsWithWhitespace(s, p) == p >= 0 /\ p < Len(s) /\ At(s, p) \in WhitespaceChars

\* s.find(t, from): the lowest index >= from where t begins, else -1
Find(s, t, from) ==
  LET hits == {i \in from..(Len(s) - Len(t)) : StartsWith(s, t, i)}
  IN IF hits = {} THEN -1 ELSE CHOOSE i \in hits : \A j \in hits : i <= j

\* s.rfind('\n', a, b): the highest index in [a, b) holding a newline, else -1
RFindNewline(s, a, b) ==
  LET hits == {i \in a..(b - 1) : i >= 0 /\ i < Len(s) /\ At(s, i) = LF}
  IN IF hits = {} THEN -1 ELSE CHOOSE i \in hits : \A j \in hits : i >= j

\* s.count('\n', a, b)
CountNewline(s, a, b) ==
  Cardinality({i \in a..(b - 1) : i >= 0 /\ i < Len(s) /\ At(s, i) = LF})

RECURSIVE SkipWhitespace(_, _)
\* while css.startswith((' ', '\n', '\t'), pos): pos += 1
SkipWhitespace(s, p) ==
  IF StartsWithWhitespace(s, p) THEN SkipWhitespace(s, p + 1) ELSE p

\* webencodings.ascii_lower, on a sequence of code points
AsciiLower(t) ==
  [i \in 1..Len(t) |-> IF t[i] \in UpperLetters THEN t[i] + 32 ELSE t[i]]

RECURSIVE Preprocess(_)
\* css.replace('\0', U+FFFD).replace('\r\n', '\n').replace('\r', '\n')
\*    .replace('\f', '\n')
Preprocess(t) ==
  IF t = <<>> THEN <<>>
  ELSE IF Head(t) = NUL THEN <<REPLACEMENT>> \o Preprocess(Tail(t))
  ELSE IF Head(t) = CR /\ Len(t) >= 2 /\ t[2] = LF
       THEN <<LF>> \o Preprocess(Tail(Tail(t)))
  ELSE IF Head(t) \in {CR, FF} THEN <<LF>> \o Preprocess(Tail(t))
  ELSE <<Head(t)>> \o Preprocess(Tail(t))

----------------------------------------------------------------------------
(* Identifiers and escapes *)

\* _is_name_start; raises IndexError when p is not an index of s
IsNameStart(s, p) ==
  LET c == At(s, p)
  IN c \in NameStartChars \/ c > DEL

\* _is_ident_start; the caller guarantees p < len(s)
IsIdentStart(s, p) ==
  IF IsNameStart(s, p) THEN TRUE
  ELSE IF At(s, p) = HYPHEN
       THEN \/ (p + 1 < Len(s) /\ (IsNameStart(s, p + 1) \/ At(s, p + 1) = HYPHEN))
            \/ (StartsWith(s, <<BACKSLASH>>, p + 1)
                /\ ~StartsWith(s, <<BACKSLASH, LF>>, p + 1))
  ELSE IF At(s, p) = BACKSLASH THEN ~StartsWith(s, <<BACKSLASH, LF>>, p)
  ELSE FALSE

HexDigitValue(c) ==
  IF c \in Digits THEN c - DIGIT0
  ELSE IF c >= LOWER_A THEN c - LOWER_A + 10
  ELSE c - UPPER_A + 10

RECURSIVE HexValue(_)
\* int(text, 16)
HexValue(t) ==
  IF t = <<>> THEN 0
  ELSE 16 * HexValue(SubSeq(t, 1, Len(t) - 1)) + HexDigitValue(t[Len(t)])

RECURSIVE HexRunEnd(_, _, _)
\* The end of the run of hex digits that starts at p and stops before max
HexRunEnd(s, p, max) ==
  IF p < max /\ p < Len(s) /\ At(s, p) \in HexDigits
  THEN HexRunEnd(s, p + 1, max) ELSE p

\* _consume_escape: p is just after the backslash
ConsumeEscape(s, p) ==
  LET h == HexRunEnd(s, p, p + 6)
      codepoint == HexValue(Slice(s, p, h))
  IN IF h > p
     THEN [c |-> IF 0 < codepoint /\ codepoint <= MAXUNICODE
                 THEN codepoint ELSE REPLACEMENT,
           pos |-> IF StartsWithWhitespace(s, h) THEN h + 1 ELSE h]
     ELSE IF p < Len(s) THEN [c |-> At(s, p), pos |-> p + 1]
     ELSE [c |-> REPLACEMENT, pos |-> p]

RECURSIVE ConsumeIdentLoop(_, _, _, _)
\* The loop of _consume_ident: chunks is ''.join(chunks) so far
ConsumeIdentLoop(s, p, chunks, start_pos) ==
  IF p < Len(s) /\ (At(s, p) \in NameChars \/ At(s, p) > DEL)
  THEN ConsumeIdentLoop(s, p + 1, chunks, start_pos)
  ELSE IF p < Len(s) /\ At(s, p) = BACKSLASH
          /\ ~StartsWith(s, <<BACKSLASH, LF>>, p)
       THEN LET e == ConsumeEscape(s, p + 1)
            IN ConsumeIdentLoop(s, e.pos,
                                chunks \o Slice(s, start_pos, p) \o <<e.c>>,
                                e.pos)
  ELSE [value |-> chunks \o Slice(s, start_pos, p), pos |-> p]

\* _consume_ident
ConsumeIdent(s, p) == ConsumeIdentLoop(s, p, <<>>, p)

----------------------------------------------------------------------------
(* Quoted strings.  A result is [value, has_value, pos, error]: has_value  *)
(* is FALSE for a value of None, error is "" for an error of None.         *)

\* A variant of StringAtEof that forgets the text after the last escape
StringAtEofNoTail(s, p, chunks, start_pos) ==
  [value |-> chunks, has_value |-> TRUE, pos |-> p, error |-> "eof-in-string"]

\* lines 289-292: the loop ended without a closing quote
StringAtEof(s, p, chunks, start_pos) ==
  [value |-> chunks \o Slice(s, start_pos, p), has_value |-> TRUE,
   pos |-> p, error |-> "eof-in-string"]

\* A variant of StringAtNewline that consumes the newline
StringAtNewlineConsumed(p) ==
  [value |-> <<>>, has_value |-> FALSE, pos |-> p + 1, error |-> "bad-string"]

\* lines 285-286: an unescaped newline, which is left unconsumed
StringAtNewline(p) ==
  [value |-> <<>>, has_value |-> FALSE, pos |-> p, error |-> "bad-string"]

RECURSIVE ConsumeQuotedStringLoop(_, _, _, _, _)
\* The while/else loop of _consume_quoted_string
ConsumeQuotedStringLoop(s, p, quote, chunks, start_pos) ==
  IF p >= Len(s) THEN StringAtEof(s, p, chunks, start_pos)
  ELSE IF At(s, p) = quote
  THEN [value |-> chunks \o Slice(s, start_pos, p), has_value |-> TRUE,
        pos |-> p + 1, error |-> ""]
  ELSE IF At(s, p) = BACKSLASH
  THEN LET c1 == chunks \o Slice(s, start_pos, p)
       IN IF p + 1 < Len(s)
          THEN IF At(s, p + 1) = LF
               THEN ConsumeQuotedStringLoop(s, p + 2, quote, c1, p + 2)
               ELSE LET e == ConsumeEscape(s, p + 1)
                    IN ConsumeQuotedStringLoop(s, e.pos, quote,
                                               c1 \o <<e.c>>, e.pos)
          ELSE ConsumeQuotedStringLoop(s, p + 1, quote, c1, p + 1)
  ELSE IF At(s, p) = LF THEN StringAtNewline(p)
  ELSE ConsumeQuotedStringLoop(s, p + 1, quote, chunks, start_pos)

\* _consume_quoted_string: p is the index of the opening quote
ConsumeQuotedString(s, p) ==
  ConsumeQuotedStringLoop(s, p + 1, At(s, p), <<>>, p + 1)

----------------------------------------------------------------------------
(* URLs *)

RECURSIVE ConsumeBadUrlRemnantsNoPairs(_, _)
\* A variant of ConsumeBadUrlRemnants that stops at the first `)`, escaped
\* or not
ConsumeBadUrlRemnantsNoPairs(s, p) ==
  IF p >= Len(s) THEN p
  ELSE IF At(s, p) = RPAREN THEN p + 1
  ELSE ConsumeBadUrlRemnantsNoPairs(s, p + 1)

RECURSIVE ConsumeBadUrlRemnants(_, _)
\* The last loop of _consume_url
ConsumeBadUrlRemnants(s, p) ==
  IF p >= Len(s) THEN p
  ELSE IF StartsWith(s, <<BACKSLASH, RPAREN>>, p)
       THEN ConsumeBadUrlRemnants(s, p + 2)
  ELSE IF At(s, p) = RPAREN THEN p + 1
  ELSE ConsumeBadUrlRemnants(s, p + 1)

\* _consume_url from `if value is not None:` on, with the value, the position
\* and the error that the first part left
ConsumeUrlEnd(s, value, has_value, p, error) ==
  LET q == SkipWhitespace(s, p)
  IN IF has_value /\ q < Len(s) /\ At(s, q) = RPAREN
     THEN [value |-> value, has_value |-> TRUE, pos |-> q + 1, error |-> error]
     ELSE IF has_value /\ q >= Len(s)
     THEN [value |-> value, has_value |-> TRUE, pos |-> q,
           error |-> IF error = "" THEN "eof-in-url" ELSE error]
     ELSE [value |-> <<>>, has_value |-> FALSE,
           pos |-> ConsumeBadUrlRemnants(s, IF has_value THEN q ELSE p),
           error |-> "bad-url"]

RECURSIVE ConsumeUrlLoop(_, _, _, _)
\* The `while 1` loop of _consume_url for an unquoted body
ConsumeUrlLoop(s, p, chunks, start_pos) ==
  IF p >= Len(s)
  THEN [value |-> chunks \o Slice(s, start_pos, p), has_value |-> TRUE,
        pos |-> p, error |-> "eof-in-url"]
  ELSE IF At(s, p) = RPAREN
  THEN [value |-> chunks \o Slice(s, start_pos, p), has_value |-> TRUE,
        pos |-> p + 1, error |-> ""]
  ELSE IF At(s, p) \in WhitespaceChars
  THEN ConsumeUrlEnd(s, chunks \o Slice(s, start_pos, p), TRUE, p + 1, "")
  ELSE IF At(s, p) = BACKSLASH /\ ~StartsWith(s, <<BACKSLASH, LF>>, p)
  THEN LET e == ConsumeEscape(s, p + 1)
       IN ConsumeUrlLoop(s, e.pos, chunks \o Slice(s, start_pos, p) \o <<e.c>>,
                         e.pos)
  ELSE IF At(s, p) \in {QUOTE, APOS, LPAREN} \cup NonPrintable
  THEN ConsumeUrlEnd(s, <<>>, FALSE, p + 1, "")
  ELSE ConsumeUrlLoop(s, p + 1, chunks, start_pos)

\* _consume_url: p is just after the '(' of 'url('
ConsumeUrl(s, p) ==
  LET q == SkipWhitespace(s, p)
  IN IF q >= Len(s)
     THEN [value |-> <<>>, has_value |-> TRUE, pos |-> q, error |-> "eof-in-url"]
     ELSE IF At(s, q) \in QuoteChars
     THEN LET r == ConsumeQuotedString(s, q)
          IN ConsumeUrlEnd(s, r.value, r.has_value, r.pos, r.error)
     ELSE IF At(s, q) = RPAREN
     THEN [value |-> <<>>, has_value |-> TRUE, pos |-> q + 1, error |-> ""]
     ELSE ConsumeUrlLoop(s, q, <<>>, q)

----------------------------------------------------------------------------
(* Unicode ranges and numbers *)

RECURSIVE QuestionMarksEnd(_, _, _)
\* while pos < max_pos and css[pos] == '?': pos += 1
QuestionMarksEnd(s, p, max) ==
  IF p < max /\ At(s, p) = QMARK THEN QuestionMarksEnd(s, p + 1, max) ELSE p

Min(a, b) == IF a < b THEN a ELSE b

\* A variant of ConsumeUnicodeRange that gives the question marks a budget
\* of their own
ConsumeUnicodeRangeOwnBudget(s, p) ==
  LET h == HexRunEnd(s, p, Min(p + 6, Len(s)))
      start == Slice(s, p, h)
      q == QuestionMarksEnd(s, h, Min(h + 6, Len(s)))
      question_marks == q - h
  IN IF question_marks > 0
     THEN [start |-> HexValue(start \o [i \in 1..question_marks |-> DIGIT0]),
           end |-> HexValue(start \o [i \in 1..question_marks |-> UPPER_F]),
           pos |-> q]
     ELSE IF q + 1 < Len(s) /\ At(s, q) = HYPHEN /\ At(s, q + 1) \in HexDigits
     THEN LET e == HexRunEnd(s, q + 1, Min(q + 1 + 6, Len(s)))
          IN [start |-> HexValue(start), end |-> HexValue(Slice(s, q + 1, e)),
              pos |-> e]
     ELSE [start |-> HexValue(start), end |-> HexValue(start), pos |-> q]

\* _consume_unicode_range: p is just after the '+'
ConsumeUnicodeRange(s, p) ==
  LET max_pos == Min(p + 6, Len(s))
      h == HexRunEnd(s, p, max_pos)
      start == Slice(s, p, h)
      q == QuestionMarksEnd(s, h, max_pos)
      question_marks == q - h
  IN IF question_marks > 0
     THEN [start |-> HexValue(start \o [i \in 1..question_marks |-> DIGIT0]),
           end |-> HexValue(start \o [i \in 1..question_marks |-> UPPER_F]),
           pos |-> q]
     ELSE IF q + 1 < Len(s) /\ At(s, q) = HYPHEN /\ At(s, q + 1) \in HexDigits
     THEN LET e == HexRunEnd(s, q + 1, Min(q + 1 + 6, Len(s)))
          IN [start |-> HexValue(start), end |-> HexValue(Slice(s, q + 1, e)),
              pos |-> e]
     ELSE [start |-> HexValue(start), end |-> HexValue(start), pos |-> q]

RECURSIVE DigitRunEnd(_, _)
\* The end of the run of decimal digits that starts at p
DigitRunEnd(s, p) ==
  IF p < Len(s) /\ At(s, p) \in Digits THEN DigitRunEnd(s, p + 1) ELSE p

\* _NUMBER_RE.match(css, p): [-+]?([0-9]*\.)?[0-9]+([eE][+-]?[0-9]+)?
\* matched, the end of the match, and whether a group took part in it
NumberMatch(s, p) ==
  LET p1 == IF p < Len(s) /\ At(s, p) \in {HYPHEN, PLUS} THEN p + 1 ELSE p
      d1 == DigitRunEnd(s, p1)
      group1 == d1 < Len(s) /\ At(s, d1) = DOT /\ DigitRunEnd(s, d1 + 1) > d1 + 1
      d2 == IF group1 THEN DigitRunEnd(s, d1 + 1) ELSE d1
      x == IF d2 + 1 < Len(s) /\ At(s, d2 + 1) \in {HYPHEN, PLUS}
           THEN d2 + 2 ELSE d2 + 1
      group2 == /\ d2 < Len(s) /\ At(s, d2) \in {LOWER_E, UPPER_E}
                /\ DigitRunEnd(s, x) > x
  IN [matched |-> group1 \/ d1 > p1,
      end |-> IF group2 THEN DigitRunEnd(s, x) ELSE d2,
      groups |-> group1 \/ group2]

----------------------------------------------------------------------------
(* Tokens *)

\* A token of tinycss2.ast.  Every kind is the same record:
\*   value  the text of the token (value, name, or repr_ of a number)
\*   kind   the first field of a ParseError, "" for any other token
\*   flag   is_identifier of a Hash, "int_value is not None" of a number
\*   unit   the unit of a Dimension
\*   start, end  the bounds of a UnicodeRange
\*   trim   the characters cut from the end of the repr of a String or URL
\*   parent the list the token was appended to
Token(type, value) ==
  [type |-> type, line |-> 0, column |-> 0, value |-> value, kind |-> "",
   flag |-> FALSE, unit |-> <<>>, start |-> 0, end |-> 0, trim |-> 0,
   parent |-> 0]

\* ParseError(line, column, kind, message)
ParseError(kind) == [Token("error", <<>>) EXCEPT !.kind = kind]

\* tokens.append(tok), tok built with the line and column of the iteration
Emit(s, tok) ==
  [s EXCEPT !.nodes = Append(@, [tok EXCEPT !.line = s.line,
                                            !.column = s.column,
                                            !.parent = s.tokens])]

\* An exception leaves the function: nothing is returned
Raise(s) == [s EXCEPT !.pc = "raised"]

----------------------------------------------------------------------------
(* The branches of the main loop.  s is the state of the call with line,   *)
(* column and token_start_pos already set for this iteration; the result   *)
(* is the state at the end of the iteration.                               *)

\* A variant of WhitespaceBranch whose token keeps only the first character
\* of the run
WhitespaceBranchFirstChar(s) ==
  LET p == SkipWhitespace(s.css, s.pos + 1)
  IN [Emit(s, Token("whitespace",
                    Slice(s.css, s.token_start_pos, s.token_start_pos + 1)))
      EXCEPT !.pos = p]

\* lines 51-57
WhitespaceBranch(s) ==
  LET p == SkipWhitespace(s.css, s.pos + 1)
  IN [Emit(s, Token("whitespace", Slice(s.css, s.token_start_pos, p)))
      EXCEPT !.pos = p]

\* lines 58-59
IsUnicodeRangeStart(s, c) ==
  /\ c \in {UPPER_U, LOWER_U}
  /\ s.pos + 2 < Len(s.css)
  /\ At(s.css, s.pos + 1) = PLUS
  /\ At(s.css, s.pos + 2) \in HexDigits \cup {QMARK}

\* lines 60-62
UnicodeRangeBranch(s) ==
  LET r == ConsumeUnicodeRange(s.css, s.pos + 2)
  IN [Emit(s, [Token("unicode-range", <<>>) EXCEPT !.start = r.start,
                                                   !.end = r.end])
      EXCEPT !.pos = r.pos]

\* lines 63-66
CdcBranch(s) ==
  [Emit(s, Token("literal", CDC)) EXCEPT !.pos = s.pos + 3]

\* A variant of OpenBlock that saves the closer of the new block in the
\* frame it pushes
OpenBlockSavesOwnCloser(s, type, name, closer, p) ==
  LET s1 == Emit(s, Token(type, name))
  IN [s1 EXCEPT !.stack = Append(@, [tokens |-> s.tokens,
                                     end_char |-> closer]),
                !.end_char = closer,
                !.tokens = Len(s1.nodes),
                !.pos = p]

\* lines 92-97, and the same steps for '{', '[' and '(' (lines 136-156):
\* append the block, push (tokens, end_char), and make the block's content
\* the current list
OpenBlock(s, type, name, closer, p) ==
  LET s1 == Emit(s, Token(type, name))
  IN [s1 EXCEPT !.stack = Append(@, [tokens |-> s.tokens,
                                     end_char |-> s.end_char]),
                !.end_char = closer,
                !.tokens = Len(s1.nodes),
                !.pos = p]

\* lines 78-91: value is the identifier, p is just after the '('
UrlBranch(s, p) ==
  LET r == ConsumeUrl(s.css, p)
      assertion == r.has_value /\ r.error # ""
                   => r.error \in {"eof-in-string", "eof-in-url"}
      trim == IF r.error = "" THEN 0
              ELSE IF r.error = "eof-in-string" THEN 2 ELSE 1
      s1 == IF r.has_value
            THEN Emit(s, [Token("url", r.value) EXCEPT !.trim = trim])
            ELSE s
      s2 == IF r.error # "" THEN Emit(s1, ParseError(r.error)) ELSE s1
  IN IF assertion THEN [s2 EXCEPT !.pos = r.pos] ELSE Raise(s)

\* A variant of IsUnquotedUrl for which only an apostrophe is a quote
IsUnquotedUrlApostropheOnly(s, p) ==
  LET url_pos == SkipWhitespace(s.css, p)
  IN url_pos >= Len(s.css) \/ At(s.css, url_pos) # APOS

\* A variant of IsUnquotedUrl that looks at the character right after the '('
IsUnquotedUrlNoSkip(s, p) ==
  p >= Len(s.css) \/ At(s.css, p) \notin QuoteChars

\* line 77: whether `url(` is handed to _consume_url (p is just after the '(')
IsUnquotedUrl(s, p) ==
  LET url_pos == SkipWhitespace(s.css, p)
  IN url_pos >= Len(s.css) \/ At(s.css, url_pos) \notin QuoteChars

\* lines 67-97
IdentBranch(s) ==
  LET r == ConsumeIdent(s.css, s.pos)
  IN IF ~StartsWith(s.css, <<LPAREN>>, r.pos)
     THEN [Emit(s, Token("ident", r.value)) EXCEPT !.pos = r.pos]
     ELSE IF AsciiLower(r.value) = URL
             /\ IsUnquotedUrl(s, r.pos + 1)
     THEN UrlBranch(s, r.pos + 1)
     ELSE OpenBlock(s, "function", r.value, RPAREN, r.pos + 1)

\* A variant of NumberBranch that gives every numeric token an int_value
NumberBranchAlwaysInt(s, m) ==
  LET repr == Slice(s.css, s.token_start_pos, m.end)
      num(type) == [Token(type, repr) EXCEPT !.flag = TRUE]
  IN IF m.end < Len(s.css) /\ IsIdentStart(s.css, m.end)
     THEN LET u == ConsumeIdent(s.css, m.end)
          IN [Emit(s, [num("dimension") EXCEPT !.unit = u.value])
              EXCEPT !.pos = u.pos]
     ELSE IF StartsWith(s.css, <<PERCENT>>, m.end)
     THEN [Emit(s, num("percentage")) EXCEPT !.pos = m.end + 1]
     ELSE [Emit(s, num("number")) EXCEPT !.pos = m.end]

\* lines 100-115: m is the match of _NUMBER_RE
NumberBranch(s, m) ==
  LET repr == Slice(s.css, s.token_start_pos, m.end)
      num(type) == [Token(type, repr) EXCEPT !.flag = ~m.groups]
  IN IF m.end < Len(s.css) /\ IsIdentStart(s.css, m.end)
     THEN LET u == ConsumeIdent(s.css, m.end)
          IN [Emit(s, [num("dimension") EXCEPT !.unit = u.value])
              EXCEPT !.pos = u.pos]
     ELSE IF StartsWith(s.css, <<PERCENT>>, m.end)
     THEN [Emit(s, num("percentage")) EXCEPT !.pos = m.end + 1]
     ELSE [Emit(s, num("number")) EXCEPT !.pos = m.end]

\* lines 116-122
AtBranch(s) ==
  LET p == s.pos + 1
  IN IF p < Len(s.css) /\ IsIdentStart(s.css, p)
     THEN LET r == ConsumeIdent(s.css, p)
          IN [Emit(s, Token("at-keyword", r.value)) EXCEPT !.pos = r.pos]
     ELSE [Emit(s, Token("literal", <<ATSIGN>>)) EXCEPT !.pos = p]

\* lines 123-135
HashBranch(s) ==
  LET p == s.pos + 1
  IN IF p < Len(s.css)
        /\ \/ At(s.css, p) \in NameChars
           \/ At(s.css, p) > DEL
           \/ (At(s.css, p) = BACKSLASH
               /\ ~StartsWith(s.css, <<BACKSLASH, LF>>, p))
     THEN LET r == ConsumeIdent(s.css, p)
          IN [Emit(s, [Token("hash", r.value)
                       EXCEPT !.flag = IsIdentStart(s.css, p)])
              EXCEPT !.pos = r.pos]
     ELSE [Emit(s, Token("literal", <<HASH>>)) EXCEPT !.pos = p]

\* A variant of CloseBranch that goes back to the root list
CloseBranchToRoot(s) ==
  IF s.stack = <<>> THEN Raise(s)
  ELSE LET top == s.stack[Len(s.stack)]
       IN [s EXCEPT !.tokens = 0,
                    !.end_char = top.end_char,
                    !.stack = SubSeq(@, 1, Len(@) - 1),
                    !.pos = s.pos + 1]

\* lines 157-161: tokens, end_char = stack.pop(); pop from an empty list
\* raises IndexError
CloseBranch(s) ==
  IF s.stack = <<>> THEN Raise(s)
  ELSE LET top == s.stack[Len(s.stack)]
       IN [s EXCEPT !.tokens = top.tokens,
                    !.end_char = top.end_char,
                    !.stack = SubSeq(@, 1, Len(@) - 1),
                    !.pos = s.pos + 1]

\* 'Unmatched ' + c is the message; the kind of the error is c itself
CloserName(c) ==
  IF c = RBRACE THEN "}" ELSE IF c = RBRACKET THEN "]" ELSE ")"

\* A variant of UnmatchedBranch that reports the error and forgets pos += 1
UnmatchedBranchNoAdvance(s, c) == Emit(s, ParseError(CloserName(c)))

\* A variant of UnmatchedBranch that also closes the innermost open block
UnmatchedBranchLenient(s, c) ==
  LET s1 == [Emit(s, ParseError(CloserName(c))) EXCEPT !.pos = s.pos + 1]
  IN IF s.stack = <<>> THEN s1
     ELSE [s1 EXCEPT !.tokens = s.stack[Len(s.stack)].tokens,
                     !.end_char = s.stack[Len(s.stack)].end_char,
                     !.stack = SubSeq(@, 1, Len(@) - 1)]

\* lines 162-164
UnmatchedBranch(s, c) ==
  [Emit(s, ParseError(CloserName(c))) EXCEPT !.pos = s.pos + 1]

\* A variant of StringBranch that appends the String token only when there
\* is no error
StringBranchErrorOnly(s) ==
  LET r == ConsumeQuotedString(s.css, s.pos)
      s1 == IF r.has_value /\ r.error = ""
            THEN Emit(s, Token("string", r.value))
            ELSE s
      s2 == IF r.error # "" THEN Emit(s1, ParseError(r.error)) ELSE s1
  IN [s2 EXCEPT !.pos = r.pos]

\* lines 165-173
StringBranch(s) ==
  LET r == ConsumeQuotedString(s.css, s.pos)
      s1 == IF r.has_value
            THEN Emit(s, [Token("string", r.value)
                          EXCEPT !.trim = IF r.error # "" THEN 1 ELSE 0])
            ELSE s
      s2 == IF r.error # "" THEN Emit(s1, ParseError(r.error)) ELSE s1
  IN [s2 EXCEPT !.pos = r.pos]

\* A variant of CommentBranch that drops comments from the root list only
CommentBranchRootOnly(s) ==
  LET p == Find(s.css, COMMENT_END, s.pos + 2)
      body == Slice(s.css, s.token_start_pos + 2,
                    IF p = -1 THEN Len(s.css) ELSE p)
      s1 == IF ~s.skip_comments \/ s.tokens # 0
            THEN Emit(s, Token("comment", body)) ELSE s
  IN IF p = -1
     THEN [s1 EXCEPT !.pos = p, !.pc = "done"]
     ELSE [s1 EXCEPT !.pos = p + 2]

\* A variant of CommentBranch that looks for the end of the comment from the
\* `*` of its start
CommentBranchFromStar(s) ==
  LET p == Find(s.css, COMMENT_END, s.pos + 1)
      body == Slice(s.css, s.token_start_pos + 2,
                    IF p = -1 THEN Len(s.css) ELSE p)
      s1 == IF ~s.skip_comments THEN Emit(s, Token("comment", body)) ELSE s
  IN IF p = -1
     THEN [s1 EXCEPT !.pos = p, !.pc = "done"]
     ELSE [s1 EXCEPT !.pos = p + 2]

\* lines 174-184: `break` leaves the loop with pos = -1, and root is returned
CommentBranch(s) ==
  LET p == Find(s.css, COMMENT_END, s.pos + 2)
      body == Slice(s.css, s.token_start_pos + 2,
                    IF p = -1 THEN Len(s.css) ELSE p)
      s1 == IF ~s.skip_comments THEN Emit(s, Token("comment", body)) ELSE s
  IN IF p = -1
     THEN [s1 EXCEPT !.pos = p, !.pc = "done"]
     ELSE [s1 EXCEPT !.pos = p + 2]

\* lines 185-200
LiteralBranch(s, c) ==
  IF StartsWith(s.css, CDO, s.pos)
  THEN [Emit(s, Token("literal", CDO)) EXCEPT !.pos = s.pos + 4]
  ELSE IF StartsWith(s.css, COLUMN, s.pos)
  THEN [Emit(s, Token("literal", COLUMN)) EXCEPT !.pos = s.pos + 2]
  ELSE IF c \in MatchOperators
  THEN IF StartsWith(s.css, <<EQUALS>>, s.pos + 1)
       THEN [Emit(s, Token("literal", <<c, EQUALS>>)) EXCEPT !.pos = s.pos + 2]
       ELSE [Emit(s, Token("literal", <<c>>)) EXCEPT !.pos = s.pos + 1]
  ELSE [Emit(s, Token("literal", <<c>>)) EXCEPT !.pos = s.pos + 1]

\* A variant of Dispatch that looks for an identifier before `-->`
DispatchIdentFirst(s, c) ==
  IF c \in WhitespaceChars THEN WhitespaceBranch(s)
  ELSE IF IsUnicodeRangeStart(s, c) THEN UnicodeRangeBranch(s)
  ELSE IF IsIdentStart(s.css, s.pos) THEN IdentBranch(s)
  ELSE IF StartsWith(s.css, CDC, s.pos) THEN CdcBranch(s)
  ELSE LET m == NumberMatch(s.css, s.pos)
       IN IF m.matched THEN NumberBranch(s, m)
          ELSE IF c = ATSIGN THEN AtBranch(s)
          ELSE IF c = HASH THEN HashBranch(s)
          ELSE IF c = LBRACE
          THEN OpenBlock(s, "{} block", <<>>, RBRACE, s.pos + 1)
          ELSE IF c = LBRACKET
          THEN OpenBlock(s, "[] block", <<>>, RBRACKET, s.pos + 1)
          ELSE IF c = LPAREN
          THEN OpenBlock(s, "() block", <<>>, RPAREN, s.pos + 1)
          ELSE IF c = s.end_char THEN CloseBranch(s)
          ELSE IF c \in {RBRACE, RBRACKET, RPAREN} THEN UnmatchedBranch(s, c)
          ELSE IF c \in QuoteChars THEN StringBranch(s)
          ELSE IF StartsWith(s.css, COMMENT_START, s.pos) THEN CommentBranch(s)
          ELSE LiteralBranch(s, c)

\* The if/elif chain of lines 51-200: the first branch that matches is taken
Dispatch(s, c) ==
  IF c \in WhitespaceChars THEN WhitespaceBranch(s)
  ELSE IF IsUnicodeRangeStart(s, c) THEN UnicodeRangeBranch(s)
  ELSE IF StartsWith(s.css, CDC, s.pos) THEN CdcBranch(s)
  ELSE IF IsIdentStart(s.css, s.pos) THEN IdentBranch(s)
  ELSE LET m == NumberMatch(s.css, s.pos)
       IN IF m.matched THEN NumberBranch(s, m)
          ELSE IF c = ATSIGN THEN AtBranch(s)
          ELSE IF c = HASH THEN HashBranch(s)
          ELSE IF c = LBRACE
          THEN OpenBlock(s, "{} block", <<>>, RBRACE, s.pos + 1)
          ELSE IF c = LBRACKET
          THEN OpenBlock(s, "[] block", <<>>, RBRACKET, s.pos + 1)
          ELSE IF c = LPAREN
          THEN OpenBlock(s, "() block", <<>>, RPAREN, s.pos + 1)
          ELSE IF c = s.end_char THEN CloseBranch(s)
          ELSE IF c \in {RBRACE, RBRACKET, RPAREN} THEN UnmatchedBranch(s, c)
          ELSE IF c \in QuoteChars THEN StringBranch(s)
          ELSE IF StartsWith(s.css, COMMENT_START, s.pos) THEN CommentBranch(s)
          ELSE LiteralBranch(s, c)

\* A variant of Locate that records the newline and forgets to count the line
LocateSameLine(s) ==
  LET newline == RFindNewline(s.css, s.token_start_pos, s.pos)
      s1 == IF newline # -1 THEN [s EXCEPT !.last_newline = newline] ELSE s
  IN [s1 EXCEPT !.column = s.pos - s1.last_newline,
                !.token_start_pos = s.pos]

\* A variant of Locate that counts one line however many newlines lie
\* between the previous token start and this one
LocateOneLine(s) ==
  LET newline == RFindNewline(s.css, s.token_start_pos, s.pos)
      s1 == IF newline # -1
            THEN [s EXCEPT !.line = @ + 1, !.last_newline = newline]
            ELSE s
  IN [s1 EXCEPT !.column = s.pos - s1.last_newline,
                !.token_start_pos = s.pos]

\* lines 42-48: the line and column of the token that starts at pos
Locate(s) ==
  LET newline == RFindNewline(s.css, s.token_start_pos, s.pos)
      s1 == IF newline # -1
            THEN [s EXCEPT !.line = @ + 1 + CountNewline(s.css,
                                                         s.token_start_pos,
                                                         newline),
                           !.last_newline = newline]
            ELSE s
  IN [s1 EXCEPT !.column = s.pos - s1.last_newline,
                !.token_start_pos = s.pos]

\* One iteration of `while pos < length` (lines 42-200)
Iteration(s) ==
  LET s1 == Locate(s)
  IN Dispatch(s1, At(s1.css, s1.pos))

\* The state of a call right after line 39
Start(text, skip) ==
  [css |-> Preprocess(text), skip_comments |-> skip, pos |-> 0,
   token_start_pos |-> 0, line |-> 1, last_newline |-> -1, column |-> 0,
   nodes |-> <<>>, tokens |-> 0, end_char |-> NONE, stack |-> <<>>,
   pc |-> "loop"]

RECURSIVE Content(_, _)
\* The list k as the caller sees it: its tokens in order, each block with
\* the list `content` that was made for it (lines 137-138, 93-94)
Content(ns, k) ==
  LET idx == SelectSeq([i \in 1..Len(ns) |-> i], LAMBDA i : ns[i].parent = k)
  IN [j \in 1..Len(idx) |-> [token |-> ns[idx[j]],
                             content |-> Content(ns, idx[j])]]

\* A variant of ReturnValue that returns the list that is current when the
\* loop ends
ReturnValueCurrentList(s) == Content(s.nodes, s.tokens)

\* line 201: return root, the list made at line 36 (list 0)
ReturnValue(s) == Content(s.nodes, 0)

RECURSIVE Run(_)
\* The loop run to its end: the state when the function returns or raises
Run(s) ==
  IF s.pc # "loop" THEN s
  ELSE IF s.pos < Len(s.css) THEN Run(Iteration(s))
  ELSE [s EXCEPT !.pc = "done"]

----------------------------------------------------------------------------
(* Inputs *)

MaxLen == 4

\* A family of input texts: prefix \o body, for a prefix of prefixes and a
\* body of at most MaxLen characters of alphabet
Family(prefixes, alphabet) == [prefixes |-> prefixes, alphabet |-> alphabet]

\* Blocks, functions and closers
BlockInputs ==
  Family({<<>>, <<LBRACKET>>},
         {LBRACE, RBRACE, LPAREN, RPAREN, RBRACKET, LOWER_A})

\* Quoted strings, escapes and newlines
StringInputs ==
  Family({<<>>}, {QUOTE, APOS, BACKSLASH, LF, LOWER_A, Ch("4")})

\* Comments, closed or not, at the top level and in a block
CommentInputs ==
  Family({<<>>, COMMENT_START, <<LBRACE>> \o COMMENT_START},
         {SLASH, STAR, LOWER_A, LBRACE, RBRACE, LF})

\* Identifiers, literals and whitespace, with the characters that lines
\* 30-32 replace
TextInputs ==
  Family({<<>>, <<NUL, FF>>}, {LOWER_A, HYPHEN, Ch(">"), Ch("|"), CR, LF})

\* url( followed by a quoted or an unquoted body
UrlInputs ==
  Family({Str(<<"u", "r", "l", "(">>), Str(<<"U", "r", "L", "(">>)},
         {LOWER_A, SPACE, RPAREN, QUOTE, BACKSLASH, LF})

\* url(a followed by what can spoil an unquoted body
BadUrlInputs ==
  Family({Str(<<"u", "r", "l", "(", "a">>)},
         {LPAREN, RPAREN, BACKSLASH, DEL, SPACE, NUL})

\* Numbers, dimensions and percentages
NumberInputs ==
  Family({<<>>, Str(<<"-", "1", ".", "1">>)},
         {PLUS, HYPHEN, DOT, Ch("1"), LOWER_E, PERCENT})

\* At-keywords and hashes
AtHashInputs ==
  Family({<<ATSIGN>>, <<HASH>>}, {LOWER_A, HYPHEN, Ch("1"), BACKSLASH, LF})

\* Unicode ranges
UnicodeInputs ==
  Family({<<UPPER_U, PLUS>>, <<LOWER_U, PLUS>>,
          Str(<<"U", "+", "1", "2", "3", "4">>),
          Str(<<"u", "+", "F", "-", "a", "b", "c", "d">>)},
         {Ch("1"), UPPER_F, QMARK, HYPHEN})

Inputs ==
  {BlockInputs, StringInputs, CommentInputs, TextInputs,
   UrlInputs, BadUrlInputs, NumberInputs, AtHashInputs, UnicodeInputs}

----------------------------------------------------------------------------
(* The call as a state machine *)

\* The state of the call as one record
State ==
  [css |-> css, skip_comments |-> skip_comments, pos |-> pos,
   token_start_pos |-> token_start_pos, line |-> line,
   last_newline |-> last_newline, column |-> 0, nodes |-> nodes,
   tokens |-> tokens, end_char |-> end_char, stack |-> stack, pc |-> pc]

Becomes(s) ==
  /\ css' = s.css
  /\ skip_comments' = s.skip_comments
  /\ pos' = s.pos
  /\ token_start_pos' = s.token_start_pos
  /\ line' = s.line
  /\ last_newline' = s.last_newline
  /\ nodes' = s.nodes
  /\ tokens' = s.tokens
  /\ end_char' = s.end_char
  /\ stack' = s.stack
  /\ pc' = s.pc

\* The state after line 39, for a call with a text of one of the families
InitOn(families) ==
  /\ \E f \in families : \E p \in f.prefixes : \E k \in 0..MaxLen :
       \E body \in [1..k -> f.alphabet] : raw = p \o body
  /\ skip_comments \in BOOLEAN
  /\ css = Preprocess(raw)
  /\ pos = 0
  /\ token_start_pos = 0
  /\ line = 1
  /\ last_newline = -1
  /\ nodes = <<>>
  /\ tokens = 0
  /\ end_char = NONE
  /\ stack = <<>>
  /\ pc = "loop"

Init == InitOn(Inputs)

\* One iteration of the main loop
Step ==
  /\ pc = "loop"
  /\ pos < Len(css)
  /\ Becomes(Iteration(State))
  /\ UNCHANGED raw

\* The loop condition fails: return root
Return ==
  /\ pc = "loop"
  /\ pos >= Len(css)
  /\ pc' = "done"
  /\ UNCHANGED <<raw, css, skip_comments, pos, token_start_pos, line,
                 last_newline, nodes, tokens, end_char, stack>>

Next == Step \/ Return

Spec == Init /\ [][Next]_vars

----------------------------------------------------------------------------
(* Definitions the properties share *)

\* The last token created
Last(ns) == ns[Len(ns)]

\* Python's index of the character the next iteration starts at is pos; the
\* 1-based line of index p of the normalized text, counted from its start
LineAt(p) == 1 + Cardinality({i \in 0..(p - 1) : At(css, i) = LF})

\* The 1-based column of index p: its offset from the start of its line
ColumnAt(p) ==
  LET before == {i \in 0..(p - 1) : At(css, i) = LF}
  IN IF before = {} THEN p + 1
     ELSE p - (CHOOSE i \in before : \A j \in before : i >= j)

\* tok, placed at index p of the text and appended to the list `parent`
Placed(tok, p, parent) ==
  [tok EXCEPT !.line = LineAt(p), !.column = ColumnAt(p), !.parent = parent]

\* (line, column) of a is not after that of b
NotAfter(a, b) == a.line < b.line \/ (a.line = b.line /\ a.column <= b.column)

\* An iteration of the main loop is about to run
AtTokenStart == pc = "loop" /\ pos < Len(css)

----------------------------------------------------------------------------
(* C1 *)

\* The scan stops at a comment that is not closed
AtUnclosedComment ==
  /\ StartsWith(css, COMMENT_START, pos)
  /\ ~\E i \in (pos + 2)..(Len(css) - 2) : StartsWith(css, COMMENT_END, i)

----------------------------------------------------------------------------
(* C2 *)

\* C2: in every list (the root list and the content of every block) the
\* positions of the tokens are non-decreasing in (line, column) order, and no
\* token of a block's content is before the block itself.
C2_PositionsNonDecreasing ==
  /\ \A i, j \in DOMAIN nodes :
       i < j /\ nodes[i].parent = nodes[j].parent => NotAfter(nodes[i], nodes[j])
  /\ \A i \in DOMAIN nodes :
       nodes[i].parent > 0 => NotAfter(nodes[nodes[i].parent], nodes[i])

\* A token of a block's content, on a later line and in a smaller column
\* than the token before it in the same list
C2_Witness ==
  /\ pc = "done"
  /\ \E i, j \in DOMAIN nodes :
       /\ j = i + 1
       /\ nodes[i].parent > 0
       /\ nodes[j].parent = nodes[i].parent
       /\ nodes[j].line > nodes[i].line
       /\ nodes[j].column < nodes[i].column

----------------------------------------------------------------------------
(* C3 *)

\* The character at pos is a closer that the innermost open block does not
\* expect
AtUnexpectedCloser ==
  /\ AtTokenStart
  /\ At(css, pos) \in {RBRACE, RBRACKET, RPAREN}
  /\ At(css, pos) # end_char

\* C3: an unexpected closer at a token start appends exactly one ParseError
\* with the line and column of that character to the current list, advances
\* by one character, and leaves the stack, the expected closer and the
\* current list as they were.
C3_UnexpectedCloserOnlyReported ==
  [][AtUnexpectedCloser =>
       /\ nodes' = Append(nodes, Placed(ParseError(CloserName(At(css, pos))),
                                        pos, tokens))
       /\ pos' = pos + 1
       /\ stack' = stack
       /\ end_char' = end_char
       /\ tokens' = tokens
       /\ pc' = "loop"]_vars

\* An unexpected ')' was reported inside a '{' block while an outer '(' block
\* is open, and both blocks are still open
C3_Witness ==
  /\ nodes # <<>>
  /\ Last(nodes).kind = ")"
  /\ end_char = RBRACE
  /\ \E k \in DOMAIN stack : stack[k].end_char = RPAREN
  /\ Last(nodes).parent = tokens

----------------------------------------------------------------------------
(* C4 *)

\* The number of Comment tokens among the first k tokens of ns
CommentsBefore(ns, k) ==
  Cardinality({i \in 1..k : i <= Len(ns) /\ ns[i].type = "comment"})

\* ns with every Comment token removed from every list: the tokens left keep
\* their order, and a list is still named by its owner's place among them
WithoutComments(ns) ==
  LET kept == SelectSeq([i \in 1..Len(ns) |-> i],
                        LAMBDA i : ns[i].type # "comment")
  IN [k \in 1..Len(kept) |->
        [ns[kept[k]] EXCEPT !.parent = @ - CommentsBefore(ns, @)]]

\* C4: the call with comments suppressed returns what the call with comments
\* retained returns on the same text, with every Comment token removed from
\* the root list and from the content of every block and function.  (It holds
\* for every text of the model, closed comments or not.)
C4_SuppressedIsRetainedFiltered ==
  pc = "done" /\ skip_comments
    => nodes = WithoutComments(Run(Start(raw, FALSE)).nodes)

\* A call with comments suppressed on a text whose retained scan has a
\* comment inside a block and a block after a comment
C4_Witness ==
  /\ pc = "done"
  /\ skip_comments
  /\ LET kept == Run(Start(raw, FALSE)).nodes
     IN /\ \E i \in DOMAIN kept : kept[i].type = "comment" /\ kept[i].parent > 0
        /\ \E i, j \in DOMAIN kept :
             i < j /\ kept[i].type = "comment" /\ kept[j].parent > i
  /\ nodes # <<>>

----------------------------------------------------------------------------
(* C5 *)

RECURSIVE ConcatValues(_)
\* The texts of the tokens of ns, concatenated in order
ConcatValues(ns) ==
  IF ns = <<>> THEN <<>> ELSE Head(ns).value \o ConcatValues(Tail(ns))

PureAscii(text) == \A i \in DOMAIN text : text[i] <= DEL

\* No backslash of the text starts an escape: each is followed by a newline
NoEscapes(text) ==
  \A i \in DOMAIN text :
    text[i] = BACKSLASH => i < Len(text) /\ text[i + 1] = LF

\* Every token is a Literal, an Ident or a Whitespace token of the root list
OnlyTopLevelText ==
  \A i \in DOMAIN nodes :
    nodes[i].type \in {"literal", "ident", "whitespace"} /\ nodes[i].parent = 0

\* C5, as stated: for a pure-ASCII input with no escapes whose tokens are all
\* top-level Literal, Ident and Whitespace tokens, the texts of the returned
\* tokens concatenated in order are the original input text.
C5_RoundTripOriginal ==
  pc = "done" /\ PureAscii(raw) /\ NoEscapes(css) /\ OnlyTopLevelText
    => ConcatValues(nodes) = raw

\* C5, amended: under the same conditions, and when comments are retained or
\* the text holds no '/*', the concatenation is the normalized text (NUL
\* replaced by U+FFFD; CR LF, CR and FF replaced by LF); so it is the
\* original text when that holds none of NUL, CR and FF.
C5_RoundTripNormalized ==
  /\ pc = "done" /\ PureAscii(raw) /\ NoEscapes(css) /\ OnlyTopLevelText
  /\ (skip_comments => ~\E i \in 0..Len(css) : StartsWith(css, COMMENT_START, i))
  => /\ ConcatValues(nodes) = css
     /\ (\A i \in DOMAIN raw : raw[i] \notin {NUL, CR, FF})
          => ConcatValues(nodes) = raw

\* A returned list with an Ident, a Literal and a Whitespace token of two
\* characters, whose texts concatenated are the input
C5_Witness ==
  /\ pc = "done" /\ PureAscii(raw) /\ NoEscapes(css) /\ OnlyTopLevelText
  /\ \E i, j, k \in DOMAIN nodes :
       /\ nodes[i].type = "ident"
       /\ nodes[j].type = "literal"
       /\ nodes[k].type = "whitespace" /\ Len(nodes[k].value) = 2
  /\ ConcatValues(nodes) = raw

----------------------------------------------------------------------------
(* C6 *)

\* The token right before nodes[i] is a String token at the same line and
\* column, in the same list
StringRightBefore(i) ==
  /\ i > 1
  /\ nodes[i - 1].type = "string"
  /\ nodes[i - 1].line = nodes[i].line
  /\ nodes[i - 1].column = nodes[i].column
  /\ nodes[i - 1].parent = nodes[i].parent

\* C6, as stated: a ParseError of kind bad-string or eof-in-string never
\* appears without a String token directly before it at the same line and
\* column.
C6_StringErrorsArePaired ==
  \A i \in DOMAIN nodes :
    nodes[i].kind \in {"bad-string", "eof-in-string"} => StringRightBefore(i)

\* C6, amended: a ParseError of kind eof-in-string always has a String token
\* directly before it at the same line and column; a ParseError of kind
\* bad-string never has: no String token is made for a string that an
\* unescaped newline ends.
C6_OnlyEofInStringIsPaired ==
  \A i \in DOMAIN nodes :
    /\ nodes[i].kind = "eof-in-string" => StringRightBefore(i)
    /\ nodes[i].kind = "bad-string" => ~StringRightBefore(i)

\* A scan that met both a string ended by a newline and a string ended by
\* the end of the input
C6_Witness ==
  /\ pc = "done"
  /\ \E i, j \in DOMAIN nodes :
       nodes[i].kind = "bad-string" /\ nodes[j].kind = "eof-in-string"

----------------------------------------------------------------------------
(* C7 and C8: what a quoted string is, read from the text after its        *)
(* opening quote                                                           *)

RECURSIVE QuotedText(_, _)
\* How the string whose text after the opening quote is `text` ends ("quote",
\* "newline" or "eof"), its unescaped value, and how many characters of text
\* are left after it (an unescaped newline is left)
QuotedText(text, quote) ==
  IF text = <<>> THEN [end |-> "eof", value |-> <<>>, left |-> 0]
  ELSE IF Head(text) = quote
  THEN [end |-> "quote", value |-> <<>>, left |-> Len(text) - 1]
  ELSE IF Head(text) = LF
  THEN [end |-> "newline", value |-> <<>>, left |-> Len(text)]
  ELSE IF Head(text) # BACKSLASH
  THEN LET r == QuotedText(Tail(text), quote)
       IN [r EXCEPT !.value = <<Head(text)>> \o @]
  ELSE IF Len(text) = 1 THEN [end |-> "eof", value |-> <<>>, left |-> 0]
  ELSE IF text[2] = LF THEN QuotedText(Tail(Tail(text)), quote)
  ELSE LET e == ConsumeEscape(Tail(text), 0)
           r == QuotedText(SubSeq(text, e.pos + 2, Len(text)), quote)
       IN [r EXCEPT !.value = <<e.c>> \o @]

\* An iteration is about to start at a quote
AtQuote == AtTokenStart /\ At(css, pos) \in QuoteChars

\* The text after the quote at pos
AfterQuote == Slice(css, pos + 1, Len(css))

\* text holds no quote like the opening one, no newline and no backslash
Plain(text) ==
  \A i \in DOMAIN text : text[i] \notin {At(css, pos), LF, BACKSLASH}

\* The String token and the ParseError that a string cut by the end of the
\* input gives, for the quote at pos
EofInStringPair(value) ==
  << Placed([Token("string", value) EXCEPT !.trim = 1], pos, tokens),
     Placed(ParseError("eof-in-string"), pos, tokens) >>

\* C7: when the input ends inside a quoted string, the iteration appends a
\* String token whose value is the unescaped text after the opening quote
\* and, right after it in the same list, a ParseError of kind eof-in-string;
\* a backslash that is the last character of the input adds nothing to the
\* value.
C7_EofInString ==
  [][/\ (AtQuote /\ QuotedText(AfterQuote, At(css, pos)).end = "eof")
          => /\ nodes' = nodes \o EofInStringPair(
                                    QuotedText(AfterQuote, At(css, pos)).value)
             /\ pos' = Len(css)
             /\ tokens' = tokens /\ stack' = stack /\ pc' = "loop"
     /\ (AtQuote /\ Plain(AfterQuote))
          => nodes' = nodes \o EofInStringPair(AfterQuote)
     /\ (AtQuote /\ AfterQuote # <<>> /\ Last(AfterQuote) = BACKSLASH
                 /\ Plain(SubSeq(AfterQuote, 1, Len(AfterQuote) - 1)))
          => nodes' = nodes \o EofInStringPair(
                                 SubSeq(AfterQuote, 1, Len(AfterQuote) - 1))]_vars

\* The input ended in a string right after a backslash: the value is the
\* text between the opening quote and that backslash
C7_Witness ==
  /\ pc = "done"
  /\ Len(css) >= 2 /\ Last(css) = BACKSLASH
  /\ Len(nodes) >= 2
  /\ Last(nodes).kind = "eof-in-string"
  /\ nodes[Len(nodes) - 1].type = "string"
  /\ nodes[Len(nodes) - 1].value = <<APOS, LOWER_A>>

\* C8: an unescaped newline inside a quoted string ends it with a ParseError
\* of kind bad-string and no String token, the cursor stays on the newline,
\* and the next token appended, to the same list, is a Whitespace token that
\* starts at that newline.
C8_BadStringLeavesNewline ==
  [][/\ (AtQuote /\ QuotedText(AfterQuote, At(css, pos)).end = "newline")
          => /\ nodes' = Append(nodes, Placed(ParseError("bad-string"),
                                              pos, tokens))
             /\ pos' = Len(css) - QuotedText(AfterQuote, At(css, pos)).left
             /\ At(css, pos') = LF
             /\ tokens' = tokens /\ stack' = stack /\ pc' = "loop"
     /\ \A k \in DOMAIN AfterQuote :
          (AtQuote /\ AfterQuote[k] = LF /\ Plain(SubSeq(AfterQuote, 1, k - 1)))
            => pos' = pos + k
     /\ (pc = "loop" /\ nodes # <<>> /\ Last(nodes).kind = "bad-string")
          => /\ Len(nodes') = Len(nodes) + 1
             /\ SubSeq(nodes', 1, Len(nodes)) = nodes
             /\ Last(nodes').type = "whitespace"
             /\ Head(Last(nodes').value) = LF
             /\ Last(nodes') = Placed(Last(nodes'), pos, Last(nodes).parent)]_vars

\* Inside a function, a string was ended by a newline after an escape, and
\* the Whitespace token that starts at the newline follows the error
C8_Witness ==
  \E i \in DOMAIN nodes :
    /\ nodes[i].kind = "bad-string"
    /\ nodes[i].parent > 0
    /\ i < Len(nodes)
    /\ nodes[i + 1].type = "whitespace"
    /\ nodes[i + 1].parent = nodes[i].parent
    /\ nodes[i + 1].column > nodes[i].column + 2

----------------------------------------------------------------------------
(* C9 *)

\* C9: when `/*` is met at a token start and no `*/` begins at or after the
\* second character past the `/`, the scan stops there: the iteration ends
\* the scan, appends a Comment holding all the remaining text when comments
\* are retained and nothing when they are suppressed, no token is appended
\* afterwards, and the tokens and open blocks collected so far stay as they
\* are.
C9_UnclosedCommentStopsScan ==
  [][/\ (AtTokenStart /\ AtUnclosedComment)
          => /\ pc' = "done"
             /\ nodes' = IF skip_comments THEN nodes
                         ELSE Append(nodes,
                                Placed(Token("comment",
                                             Slice(css, pos + 2, Len(css))),
                                       pos, tokens))
             /\ tokens' = tokens /\ stack' = stack /\ end_char' = end_char
     /\ pc = "done" => nodes' = nodes]_vars

\* The scan stopped at `/*/` inside an open block: the comment holds the `/`,
\* it is the last token, and the block is still on the stack
C9_Witness ==
  /\ pc = "done"
  /\ pos = -1
  /\ stack # <<>>
  /\ ~skip_comments
  /\ Last(nodes).type = "comment"
  /\ Last(nodes).value = <<SLASH>>
  /\ Last(nodes).parent > 0
  /\ Len(css) > Len(Last(nodes).value) + 2

----------------------------------------------------------------------------
(* C10 *)

\* An iteration is about to start at `url(`, in any letter case
AtUrlParen ==
  /\ AtTokenStart
  /\ pos + 4 <= Len(css)
  /\ AsciiLower(Slice(css, pos, pos + 3)) = URL
  /\ At(css, pos + 3) = LPAREN

\* The index of the first character after the whitespace that follows the
\* `(` of the `url(` at pos, or the length of the text when there is none
AfterUrlWhitespace ==
  CHOOSE q \in (pos + 4)..Len(css) :
    /\ q = Len(css) \/ At(css, q) \notin {SPACE, LF, TAB}
    /\ \A r \in (pos + 4)..(q - 1) : At(css, r) \in {SPACE, LF, TAB}

\* A quote follows the `url(` at pos and its whitespace
UrlIsQuoted ==
  AfterUrlWhitespace < Len(css) /\ At(css, AfterUrlWhitespace) \in QuoteChars

\* The characters an unquoted URL body holds as they are
UrlPlainChars ==
  (33..126) \ {QUOTE, APOS, LPAREN, RPAREN, BACKSLASH}

\* What the iteration at `url(` does: an unquoted URL opens no block and
\* appends only URL tokens and ParseErrors, a plain body closed by `)` gives
\* one URL token with the body as value, and a quoted URL opens a
\* FunctionBlock that expects `)`
UrlDispatch ==
  /\ (AtUrlParen /\ ~UrlIsQuoted)
       => /\ stack' = stack /\ tokens' = tokens /\ end_char' = end_char
          /\ Len(nodes') \in Len(nodes)..(Len(nodes) + 2)
          /\ SubSeq(nodes', 1, Len(nodes)) = nodes
          /\ \A i \in (Len(nodes) + 1)..Len(nodes') :
               /\ nodes'[i].type \in {"url", "error"}
               /\ nodes'[i] = Placed(nodes'[i], pos, tokens)
  /\ \A k \in (pos + 5)..(Len(css) - 1) :
       (/\ AtUrlParen
        /\ At(css, k) = RPAREN
        /\ \A r \in (pos + 4)..(k - 1) : At(css, r) \in UrlPlainChars)
       => /\ nodes' = Append(nodes, Placed(Token("url",
                                                 Slice(css, pos + 4, k)),
                                           pos, tokens))
          /\ pos' = k + 1
  /\ (AtUrlParen /\ UrlIsQuoted)
       => /\ nodes' = Append(nodes, Placed(Token("function",
                                                 Slice(css, pos, pos + 3)),
                                           pos, tokens))
          /\ stack' = Append(stack, [tokens |-> tokens, end_char |-> end_char])
          /\ end_char' = RPAREN
          /\ tokens' = Len(nodes')
          /\ pos' = pos + 4

\* An iteration is about to start at the quote that made `url(` a
\* FunctionBlock: the block is the current list and holds whitespace at most
AtUrlQuotedText ==
  /\ AtQuote
  /\ tokens > 0
  /\ nodes[tokens].type = "function"
  /\ AsciiLower(nodes[tokens].value) = URL
  /\ \A j \in (tokens + 1)..Len(nodes) :
       nodes[j].type = "whitespace" /\ nodes[j].parent = tokens

\* The iteration appends, to the children of the current block, a String
\* token that holds the quoted text
StringChildAppended ==
  \E i \in (Len(nodes) + 1)..Len(nodes') :
    nodes'[i] = Placed([Token("string",
                              QuotedText(AfterQuote, At(css, pos)).value)
                          EXCEPT !.trim = nodes'[i].trim],
                       pos, tokens)

\* C10, as stated: `url(` goes to the URL consumer exactly when no quote
\* follows the `(` and its whitespace, and then pushes no frame and gives a
\* single URL token for a well-formed body; otherwise a FunctionBlock that
\* expects `)` is opened and the quoted text becomes a String token among
\* its children.
C10_QuotedTextBecomesString ==
  [][/\ UrlDispatch
     /\ AtUrlQuotedText => StringChildAppended]_vars

\* C10, for the code: as stated, except that the quoted text becomes a
\* String token among the children only when no unescaped newline ends it
\* before its closing quote; when one does, a ParseError of kind bad-string
\* is the only child appended for it.
C10_UrlConsumerOrFunctionBlock ==
  [][/\ UrlDispatch
     /\ (AtUrlQuotedText
         /\ QuotedText(AfterQuote, At(css, pos)).end # "newline")
          => StringChildAppended
     /\ (AtUrlQuotedText
         /\ QuotedText(AfterQuote, At(css, pos)).end = "newline")
          => nodes' = Append(nodes, Placed(ParseError("bad-string"),
                                           pos, tokens))]_vars

\* A quoted `url(` was scanned to its `)`: the FunctionBlock is closed and
\* its children are a Whitespace token and the String token
C10_Witness ==
  /\ pc = "done"
  /\ stack = <<>>
  /\ Len(nodes) = 3
  /\ nodes[1].type = "function" /\ AsciiLower(nodes[1].value) = URL
  /\ nodes[2].type = "whitespace" /\ nodes[2].parent = 1
  /\ nodes[3].type = "string" /\ nodes[3].parent = 1
  /\ nodes[3].value = <<>>
  /\ Last(css) = RPAREN

----------------------------------------------------------------------------
(* C11 *)

\* An iteration is about to start at `U+` or `u+` followed by a hex digit
\* or `?`
AtUnicodeRange ==
  /\ AtTokenStart
  /\ pos + 2 < Len(css)
  /\ At(css, pos) \in {UPPER_U, LOWER_U}
  /\ At(css, pos + 1) = PLUS
  /\ At(css, pos + 2) \in HexDigits \cup {QMARK}

\* How many characters of `among` the text t starts with after its first
\* `from` characters, counting `most` of them at most
LeadingCount(t, from, among, most) ==
  CHOOSE n \in 0..most :
    /\ from + n <= Len(t)
    /\ \A i \in (from + 1)..(from + n) : t[i] \in among
    /\ n = most \/ from + n = Len(t) \/ t[from + n + 1] \notin among

RECURSIVE Pow16(_)
Pow16(n) == IF n = 0 THEN 1 ELSE 16 * Pow16(n - 1)

\* The text after the `+` of the range at pos, the number of hex digits and
\* of question marks taken from it, and the number the hex digits spell
RangeText == Slice(css, pos + 2, Len(css))
RangeHexCount == LeadingCount(RangeText, 0, HexDigits, 6)
RangeMarkCount == LeadingCount(RangeText, RangeHexCount, {QMARK},
                               6 - RangeHexCount)
RangeHexValue == HexValue(SubSeq(RangeText, 1, RangeHexCount))

\* A `-` and a hex digit follow the hex digits of the range at pos, and the
\* number of hex digits taken after that `-`
RangeHasEnd ==
  /\ RangeMarkCount = 0
  /\ RangeHexCount + 2 <= Len(RangeText)
  /\ RangeText[RangeHexCount + 1] = HYPHEN
  /\ RangeText[RangeHexCount + 2] \in HexDigits
RangeEndCount == LeadingCount(RangeText, RangeHexCount + 1, HexDigits, 6)

\* The unicode-range token for the range at pos
RangeToken(start, end) ==
  Placed([Token("unicode-range", <<>>) EXCEPT !.start = start, !.end = end],
         pos, tokens)

\* C11: the unicode-range consumer takes at most 6 characters in total of
\* hex digits followed by question marks; with question marks, start has 0
\* and end has F in place of each; with none, a `-` directly followed by a
\* hex digit makes end the next run of at most 6 hex digits, kept even when
\* it is below start, and otherwise end is start; the cursor ends just after
\* the last character consumed.
C11_UnicodeRange ==
  [][AtUnicodeRange =>
       /\ RangeHexCount + RangeMarkCount \in 1..6
       /\ RangeMarkCount > 0 =>
            /\ nodes' = Append(nodes,
                 RangeToken(RangeHexValue * Pow16(RangeMarkCount),
                            RangeHexValue * Pow16(RangeMarkCount)
                              + Pow16(RangeMarkCount) - 1))
            /\ pos' = pos + 2 + RangeHexCount + RangeMarkCount
       /\ RangeHasEnd =>
            /\ nodes' = Append(nodes,
                 RangeToken(RangeHexValue,
                            HexValue(SubSeq(RangeText, RangeHexCount + 2,
                                            RangeHexCount + 1 + RangeEndCount))))
            /\ pos' = pos + 2 + RangeHexCount + 1 + RangeEndCount
       /\ (RangeMarkCount = 0 /\ ~RangeHasEnd) =>
            /\ nodes' = Append(nodes, RangeToken(RangeHexValue, RangeHexValue))
            /\ pos' = pos + 2 + RangeHexCount]_vars

\* `U+12341??` was scanned: the budget of 6 left room for one question mark
\* only, and the second one is a Literal after the range 123410-12341F
C11_Witness ==
  /\ pc = "done"
  /\ Len(nodes) = 2
  /\ nodes[1].type = "unicode-range"
  /\ nodes[1].start = HexValue(Str(<<"1", "2", "3", "4", "1", "0">>))
  /\ nodes[1].end = nodes[1].start + 15
  /\ nodes[2].type = "literal" /\ nodes[2].value = <<QMARK>>

----------------------------------------------------------------------------
(* C12 *)

\* t[a..b] holds decimal digits only
AllDigits(t, a, b) == \A i \in a..b : t[i] \in Digits

\* t[a..b] is optional digits-then-dot followed by one or more digits
IsMantissa(t, a, b) ==
  /\ a <= b
  /\ t[b] \in Digits
  /\ \/ AllDigits(t, a, b)
     \/ \E d \in a..(b - 1) :
          t[d] = DOT /\ AllDigits(t, a, d - 1) /\ AllDigits(t, d + 1, b)

\* t[a..b] is `e` or `E`, an optional sign, and one or more digits
IsExponent(t, a, b) ==
  /\ a < b
  /\ t[a] \in {LOWER_E, UPPER_E}
  /\ LET d == IF t[a + 1] \in {PLUS, HYPHEN} THEN a + 2 ELSE a + 1
     IN d <= b /\ AllDigits(t, d, b)

\* The first n characters of t are optional sign, optional digits-then-dot,
\* one or more digits, optional exponent
IsNumberText(t, n) ==
  /\ n \in 1..Len(t)
  /\ LET a == IF t[1] \in {PLUS, HYPHEN} THEN 2 ELSE 1
     IN \E m \in a..n :
          IsMantissa(t, a, m) /\ (m = n \/ IsExponent(t, m + 1, n))

\* The length of the longest prefix of the text at pos that is a number, 0
\* when there is none
LongestNumber ==
  LET t == Slice(css, pos, Len(css))
      lens == {n \in 0..Len(t) : n = 0 \/ IsNumberText(t, n)}
  IN CHOOSE n \in lens : \A k \in lens : k <= n

\* An iteration is about to start at a sign, a dot or a digit that starts
\* neither `-->` nor an identifier
AtNumberOrSign ==
  /\ AtTokenStart
  /\ At(css, pos) \in Digits \cup {PLUS, HYPHEN, DOT}
  /\ ~StartsWith(css, CDC, pos)
  /\ ~IsIdentStart(css, pos)

\* The numeric token of the given type for the number at pos
NumericToken(type, unit) ==
  LET repr == Slice(css, pos, pos + LongestNumber)
  IN Placed([Token(type, repr)
               EXCEPT !.flag = \A i \in DOMAIN repr :
                                 repr[i] \notin {DOT, LOWER_E, UPPER_E},
                      !.unit = unit],
            pos, tokens)

\* C12: at a token start that is not whitespace, a unicode-range, `-->` or
\* an identifier start, the longest prefix that is a number becomes one
\* numeric token whose repr is the matched text and whose int_value is
\* present iff the text has neither a decimal point nor an exponent: a
\* Dimension when an identifier start follows (the identifier is its unit),
\* else a Percentage when `%` follows (and is consumed), else a Number; a
\* `+`, `-` or `.` that starts no number becomes a one-character Literal.
C12_NumericTokens ==
  [][AtNumberOrSign =>
       LET end == pos + LongestNumber
       IN /\ (LongestNumber > 0 /\ end < Len(css) /\ IsIdentStart(css, end))
               => /\ nodes' = Append(nodes,
                       NumericToken("dimension", ConsumeIdent(css, end).value))
                  /\ pos' = ConsumeIdent(css, end).pos
                  /\ pos' > end
          /\ (LongestNumber > 0 /\ end < Len(css) /\ ~IsIdentStart(css, end)
                                /\ At(css, end) = PERCENT)
               => /\ nodes' = Append(nodes, NumericToken("percentage", <<>>))
                  /\ pos' = end + 1
          /\ (LongestNumber > 0
              /\ (end = Len(css) \/ (/\ ~IsIdentStart(css, end)
                                     /\ At(css, end) # PERCENT)))
               => /\ nodes' = Append(nodes, NumericToken("number", <<>>))
                  /\ pos' = end
          /\ LongestNumber = 0
               => /\ nodes' = Append(nodes,
                       Placed(Token("literal", <<At(css, pos)>>), pos, tokens))
                  /\ pos' = pos + 1]_vars

\* `-1.1e+1%` was scanned: one Percentage whose repr is the text before the
\* `%`, with no int_value
C12_Witness ==
  /\ pc = "done"
  /\ Len(nodes) = 1
  /\ nodes[1].type = "percentage"
  /\ nodes[1].value = Str(<<"-", "1", ".", "1", "e", "+", "1">>)
  /\ ~nodes[1].flag
  /\ Len(css) = 8

----------------------------------------------------------------------------
(* C13 *)

\* The closer that a block token expects, NONE for the root list (list 0)
CloserOf(k) ==
  IF k = 0 THEN NONE
  ELSE IF nodes[k].type = "{} block" THEN RBRACE
  ELSE IF nodes[k].type = "[] block" THEN RBRACKET
  ELSE RPAREN

RECURSIVE Within(_, _)
\* Node j lies inside list k: k is the root list, or the block j is a child
\* of, or a block around that one
Within(j, k) ==
  \/ k = 0
  \/ j > 0 /\ (nodes[j].parent = k \/ Within(nodes[j].parent, k))

\* The index of the first character at or after index p that is not
\* whitespace, or the length of the text when there is none
AfterWhitespace(p) ==
  CHOOSE q \in p..Len(css) :
    /\ q = Len(css) \/ At(css, q) \notin {SPACE, LF, TAB}
    /\ \A r \in p..(q - 1) : At(css, r) \in {SPACE, LF, TAB}

\* An iteration is about to start at a `{`, `[` or `(`
AtOpener == AtTokenStart /\ At(css, pos) \in {LBRACE, LBRACKET, LPAREN}

\* An iteration is about to start at an identifier followed by `(` that is
\* not taken as a URL
AtFunction ==
  /\ AtTokenStart
  /\ ~AtUnicodeRange
  /\ ~StartsWith(css, CDC, pos)
  /\ IsIdentStart(css, pos)
  /\ StartsWith(css, <<LPAREN>>, ConsumeIdent(css, pos).pos)
  /\ \/ AsciiLower(ConsumeIdent(css, pos).value) # URL
     \/ LET q == AfterWhitespace(ConsumeIdent(css, pos).pos + 1)
        IN q < Len(css) /\ At(css, q) \in QuoteChars

\* An iteration is about to start at the closer that the innermost open
\* block expects
AtExpectedCloser == AtTokenStart /\ At(css, pos) = end_char

\* The iteration appends the block token tok to the current list and makes
\* it the innermost open block, p being the index after its opener
Opens(tok, closer, p) ==
  /\ nodes' = Append(nodes, Placed(tok, pos, tokens))
  /\ stack' = Append(stack, [tokens |-> tokens, end_char |-> end_char])
  /\ end_char' = closer
  /\ tokens' = Len(nodes')
  /\ pos' = p

\* The nodes of every block are the ones created right after it, and all
\* the nodes created after the innermost open block lie inside it
BlocksAreContiguous ==
  /\ \A i \in DOMAIN nodes :
       /\ nodes[i].parent < i
       /\ \A j \in (nodes[i].parent + 1)..i : Within(j, nodes[i].parent)
  /\ \A j \in (tokens + 1)..Len(nodes) : Within(j, tokens)

\* C13: a `{`, `[`, `(` or an `ident(` that is not taken as a URL appends
\* one block token to the current list, pushes one frame and expects `}`,
\* `]`, `)` and `)`; the expected closer at a token start pops exactly one
\* frame, emits no token, restores the closer of the parent block and makes
\* the parent's list the current one; every token is appended to the list
\* that is current when it is scanned, so a block's children are the tokens
\* scanned between its opener and its closer, and only the innermost open
\* block is ever closed.
C13_BlocksNest ==
  /\ []BlocksAreContiguous
  /\ [][/\ (AtOpener /\ At(css, pos) = LBRACE)
             => Opens(Token("{} block", <<>>), RBRACE, pos + 1)
        /\ (AtOpener /\ At(css, pos) = LBRACKET)
             => Opens(Token("[] block", <<>>), RBRACKET, pos + 1)
        /\ (AtOpener /\ At(css, pos) = LPAREN)
             => Opens(Token("() block", <<>>), RPAREN, pos + 1)
        /\ AtFunction
             => Opens(Token("function", ConsumeIdent(css, pos).value), RPAREN,
                      ConsumeIdent(css, pos).pos + 1)
        /\ AtExpectedCloser
             => /\ tokens > 0
                /\ end_char = CloserOf(tokens)
                /\ nodes' = nodes
                /\ Len(stack') = Len(stack) - 1
                /\ stack' = SubSeq(stack, 1, Len(stack) - 1)
                /\ tokens' = nodes[tokens].parent
                /\ end_char' = CloserOf(tokens')
                /\ pos' = pos + 1
                /\ pc' = "loop"
        /\ \A i \in (Len(nodes) + 1)..Len(nodes') :
             nodes'[i].parent = tokens]_vars

\* `[{a}a` was scanned: the second `a` follows the closed `{` block in the
\* list of the `[` block, which is still open
C13_Witness ==
  /\ pc = "done"
  /\ Len(nodes) = 4
  /\ nodes[1].type = "[] block" /\ nodes[1].parent = 0
  /\ nodes[2].type = "{} block" /\ nodes[2].parent = 1
  /\ nodes[3].type = "ident" /\ nodes[3].parent = 2
  /\ nodes[4].type = "ident" /\ nodes[4].parent = 1
  /\ Len(stack) = 1

----------------------------------------------------------------------------
(* C14 *)

\* The number of line breaks of the text as given: every form feed, every
\* newline, and every carriage return that no newline follows (CR LF is one
\* line break)
RawLineBreaks(t) ==
  Cardinality({i \in DOMAIN t :
                 \/ t[i] \in {LF, FF}
                 \/ t[i] = CR /\ ~(i < Len(t) /\ t[i + 1] = LF)})

\* The normalized text holds one newline for each line break of the text
\* as given, and no carriage return, form feed or NUL
TextIsNormalized ==
  /\ \A i \in DOMAIN css : css[i] \notin {CR, FF, NUL}
  /\ Cardinality({i \in DOMAIN css : css[i] = LF}) = RawLineBreaks(raw)
  /\ Len(css) = Len(raw) - Cardinality({i \in DOMAIN raw :
                                          /\ raw[i] = CR
                                          /\ i < Len(raw)
                                          /\ raw[i + 1] = LF})

\* C14: every token's line is 1 plus the number of newlines before its
\* first character in the normalized text, and its column is the 1-based
\* offset of that character from the start of its line, whatever number of
\* newlines lies between two token starts; a ParseError paired with a
\* String or URL token has the position of that token's first character.
C14_LineAndColumn ==
  /\ []TextIsNormalized
  /\ [][/\ \A i \in (Len(nodes) + 1)..Len(nodes') :
             /\ nodes'[i].line = LineAt(pos)
             /\ nodes'[i].column = ColumnAt(pos)
        /\ Len(nodes') = Len(nodes) + 2
             => /\ nodes'[Len(nodes) + 1].type \in {"string", "url"}
                /\ nodes'[Len(nodes) + 2].type = "error"
                /\ nodes'[Len(nodes) + 2].line = nodes'[Len(nodes) + 1].line
                /\ nodes'[Len(nodes) + 2].column
                     = nodes'[Len(nodes) + 1].column]_vars

\* A string cut by the end of the input on line 3, after a token that
\* holds two newlines: the String token and its ParseError are both at
\* line 3, column 2
C14_Witness ==
  /\ pc = "done"
  /\ Len(nodes) >= 3
  /\ Last(nodes).kind = "eof-in-string"
  /\ Last(nodes).line = 3 /\ Last(nodes).column = 2
  /\ nodes[Len(nodes) - 1].type = "string"
  /\ nodes[Len(nodes) - 1].line = 3 /\ nodes[Len(nodes) - 1].column = 2
  /\ nodes[Len(nodes) - 2].line = 3 /\ nodes[Len(nodes) - 2].column = 1

----------------------------------------------------------------------------
(* C15 *)

\* The control characters that are not whitespace; the normalized text
\* holds no NUL, form feed or carriage return
ControlChars == ((1..31) \ {TAB, LF, FF, CR}) \cup {DEL}

\* The characters that spoil an unquoted URL body by themselves
UrlBadChars == {QUOTE, APOS, LPAREN} \cup ControlChars

\* The index of the first character of the unquoted URL body at pos, from
\* index p on, that is whitespace, a `)`, a backslash or a character that
\* spoils the body; the length of the text when there is none
UrlBodyStop(p) ==
  CHOOSE k \in p..Len(css) :
    /\ k = Len(css)
       \/ At(css, k) \in UrlBadChars \cup {SPACE, LF, TAB, RPAREN, BACKSLASH}
    /\ \A r \in p..(k - 1) :
         At(css, r) \notin UrlBadChars \cup {SPACE, LF, TAB, RPAREN, BACKSLASH}

\* Where the skipping that starts at index p ends: just after the first `)`
\* at or after p that no backslash at or after p comes right before, at the
\* end of the text when there is none
AfterRemnants(p) ==
  LET closes(r) == /\ At(css, r) = RPAREN
                   /\ ~(r - 1 >= p /\ At(css, r - 1) = BACKSLASH)
  IN IF \E r \in p..(Len(css) - 1) : closes(r)
     THEN 1 + CHOOSE r \in p..(Len(css) - 1) :
                 closes(r) /\ \A q \in p..(r - 1) : ~closes(q)
     ELSE IF p > Len(css) THEN p ELSE Len(css)

\* The iteration gives one ParseError of kind bad-url and nothing else,
\* resumes at index p and leaves the block stack alone
BadUrlOnly(p) ==
  /\ nodes' = Append(nodes, Placed(ParseError("bad-url"), pos, tokens))
  /\ pos' = p
  /\ stack' = stack /\ tokens' = tokens /\ end_char' = end_char
  /\ pc' = "loop"

\* C15: in an unquoted URL body a quote, a `(` or a control character, or
\* whitespace followed by anything other than whitespace, `)` or the end of
\* the input, discards the value; the scanner skips forward, a backslash
\* directly followed by `)` being skipped as a pair, until it has consumed
\* one `)` or reached the end of the input, emits exactly one ParseError of
\* kind bad-url and no URL token, and resumes just after that `)` with the
\* block stack unchanged.
C15_BadUrlRecovery ==
  [][(AtUrlParen /\ ~UrlIsQuoted) =>
       LET k == UrlBodyStop(AfterUrlWhitespace)
           w == AfterWhitespace(k)
       IN /\ (k < Len(css) /\ At(css, k) \in UrlBadChars)
               => BadUrlOnly(AfterRemnants(k + 1))
          /\ (k < Len(css) /\ k > AfterUrlWhitespace
              /\ At(css, k) \in {SPACE, LF, TAB}
              /\ w < Len(css) /\ At(css, w) # RPAREN)
               => BadUrlOnly(AfterRemnants(w))]_vars

\* `url(a(\))` was scanned: the `(` spoiled the body, the pair `\)` was
\* skipped, and the last `)` ended the skipping; the one token is the error
C15_Witness ==
  /\ pc = "done"
  /\ Len(nodes) = 1
  /\ nodes[1].kind = "bad-url"
  /\ stack = <<>>
  /\ Len(css) = 9
  /\ Slice(css, 5, 9) = <<LPAREN, BACKSLASH, RPAREN, RPAREN>>
  /\ pos = Len(css)

----------------------------------------------------------------------------
(* C16 *)

\* The index just after the run of ASCII name characters (letters, digits,
\* `-` and `_`) that starts at index p
NameRunEnd(p) ==
  CHOOSE e \in p..Len(css) :
    /\ e = Len(css) \/ At(css, e) \notin NameChars
    /\ \A r \in p..(e - 1) : At(css, r) \in NameChars

\* An iteration is about to start at a letter that starts no unicode-range,
\* and the name characters from there on end with `--` right before a `>`
AtNameBeforeCdc ==
  /\ AtTokenStart
  /\ At(css, pos) \in LowerLetters \cup UpperLetters
  /\ ~AtUnicodeRange
  /\ NameRunEnd(pos) >= pos + 3
  /\ StartsWith(css, CDC, NameRunEnd(pos) - 2)

\* C16: dispatch at a token start is first-match-wins: text that begins
\* with `-->` gives the Literal `-->` and no identifier that begins with
\* `--`; `U+` or `u+` followed by a hex digit or `?` gives a unicode-range
\* token and no Ident `u`; the checks are made at a token start only, so a
\* `-->` that follows identifier characters is absorbed into the identifier
\* up to its last `-`.
C16_FirstMatchWins ==
  [][/\ (AtTokenStart /\ StartsWith(css, CDC, pos))
          => /\ nodes' = Append(nodes, Placed(Token("literal", CDC),
                                              pos, tokens))
             /\ pos' = pos + 3
     /\ AtUnicodeRange
          => /\ Len(nodes') = Len(nodes) + 1
             /\ SubSeq(nodes', 1, Len(nodes)) = nodes
             /\ Last(nodes').type = "unicode-range"
             /\ Last(nodes') = Placed(Last(nodes'), pos, tokens)
             /\ pos' >= pos + 3
     /\ AtNameBeforeCdc
          => /\ nodes' = Append(nodes,
                  Placed(Token("ident", Slice(css, pos, NameRunEnd(pos))),
                         pos, tokens))
             /\ pos' = NameRunEnd(pos)
             /\ At(css, pos') = Ch(">")]_vars

\* `a-->` was scanned: the identifier took the two `-`, and the `>` is a
\* Literal
C16_Witness ==
  /\ pc = "done"
  /\ Len(nodes) = 2
  /\ nodes[1].type = "ident"
  /\ nodes[1].value = <<LOWER_A, HYPHEN, HYPHEN>>
  /\ nodes[2].type = "literal"
  /\ nodes[2].value = <<Ch(">")>>

----------------------------------------------------------------------------
(* C17 *)

\* The types of the tokens that open a list of their own
BlockTypes == {"{} block", "[] block", "() block", "function"}

\* The expected closer is None exactly when no block is open; the current
\* list is the root list exactly then, and otherwise the content of the
\* block opened last among the open ones; the frames hold, from the root
\* on, the list and the closer of each block around the current one
StackMatchesOpenBlocks ==
  /\ end_char = NONE <=> stack = <<>>
  /\ tokens = 0 <=> stack = <<>>
  /\ tokens > 0 => tokens \in DOMAIN nodes /\ nodes[tokens].type \in BlockTypes
  /\ end_char = CloserOf(tokens)
  /\ \A k \in DOMAIN stack :
       /\ stack[k].tokens = 0 <=> k = 1
       /\ stack[k].tokens > 0 => nodes[stack[k].tokens].type \in BlockTypes
       /\ stack[k].end_char = CloserOf(stack[k].tokens)
       /\ stack[k].tokens
            = nodes[IF k = Len(stack) THEN tokens ELSE stack[k + 1].tokens].parent
  /\ pc # "raised"

\* C17: at every point of the scan the expected closer is None exactly
\* when the stack is empty, the current list is the content of the
\* innermost open block (the root list when none is open), the depth of
\* the stack grows by one for each block opened and shrinks by one for each
\* block closed, and the pop at a matching closer never finds the stack
\* empty.
C17_StackInvariant ==
  /\ []StackMatchesOpenBlocks
  /\ [][/\ Len(stack') = Len(stack)
                         + Cardinality({i \in (Len(nodes) + 1)..Len(nodes') :
                                          nodes'[i].type \in BlockTypes})
                         - (IF AtExpectedCloser THEN 1 ELSE 0)
        /\ AtExpectedCloser => stack # <<>> /\ pc' = "loop"]_vars

\* `{}((` was scanned: three blocks were opened and one was closed, two
\* frames are on the stack and `)` is expected
C17_Witness ==
  /\ pc = "done"
  /\ Len(stack) = 2
  /\ Cardinality({i \in DOMAIN nodes : nodes[i].type \in BlockTypes}) = 3
  /\ end_char = RPAREN
  /\ tokens = 3
  /\ nodes[3].parent = 2 /\ nodes[2].parent = 0 /\ nodes[1].parent = 0

----------------------------------------------------------------------------
(* C18 *)

\* An iteration is about to start at an identifier that the main scanner
\* hands to the URL consumer, and the index just after its `(`
UrlArgument == ConsumeIdent(css, pos).pos + 1
AtUrlConsumerCall ==
  /\ AtTokenStart
  /\ At(css, pos) \notin WhitespaceChars
  /\ ~AtUnicodeRange
  /\ ~StartsWith(css, CDC, pos)
  /\ IsIdentStart(css, pos)
  /\ StartsWith(css, <<LPAREN>>, ConsumeIdent(css, pos).pos)
  /\ AsciiLower(ConsumeIdent(css, pos).value) = URL
  /\ IsUnquotedUrl(State, UrlArgument)

\* What the URL consumer returns to the main scanner: never a quoted
\* string, eof-in-url as the only error that comes with a value, and no
\* value with bad-url
UrlConsumerResult ==
  AtUrlConsumerCall =>
    LET r == ConsumeUrl(css, UrlArgument)
        q == SkipWhitespace(css, UrlArgument)
    IN /\ q >= Len(css) \/ At(css, q) \notin QuoteChars
       /\ r.has_value /\ r.error # "" => r.error = "eof-in-url"
       /\ r.error \notin {"", "eof-in-url"} => r.error = "bad-url"
       /\ r.error = "bad-url" => ~r.has_value

\* C18: whenever the URL consumer, called from the main scanner, returns a
\* value and an error, the error is eof-in-url, so the assertion of the URL
\* branch holds and nothing is raised; the consumer's quoted-string branch
\* is not reached from the main scanner; and a bad-url error comes with no
\* value, hence with no URL token.
C18_UrlValueWithErrorIsEof ==
  /\ [](UrlConsumerResult /\ pc # "raised")
  /\ [][AtUrlConsumerCall =>
          /\ pc' = "loop"
          /\ \A i \in (Len(nodes) + 1)..Len(nodes') :
               /\ nodes'[i].type = "url" => nodes'[i].trim \in {0, 1}
               /\ nodes'[i].kind \in {"", "eof-in-url", "bad-url"}
               /\ nodes'[i].kind = "bad-url" => Len(nodes') = Len(nodes) + 1
               /\ nodes'[i].kind = "eof-in-url"
                    => /\ i = Len(nodes) + 2
                       /\ nodes'[i - 1].type = "url"
                       /\ nodes'[i - 1].trim = 1]_vars

\* `url(a` was scanned: the consumer returned the value `a` with
\* eof-in-url, and the URL token lacks its `)`
C18_Witness ==
  /\ pc = "done"
  /\ Len(nodes) = 2
  /\ nodes[1].type = "url" /\ nodes[1].value = <<LOWER_A>>
  /\ nodes[1].trim = 1
  /\ nodes[2].kind = "eof-in-url"
  /\ Len(css) > 5

----------------------------------------------------------------------------
(* C19 *)

RECURSIVE Flatten(_)
\* The tokens of a returned list and of the blocks in it, each block right
\* before its content
Flatten(list) ==
  IF list = <<>> THEN <<>>
  ELSE <<list[1].token>> \o Flatten(list[1].content) \o Flatten(Tail(list))

\* The loop has ended and blocks are still open
EndedInsideBlocks == pc = "done" /\ stack # <<>>

\* The outermost of the blocks that are open
OutermostOpen == IF Len(stack) >= 2 THEN stack[2].tokens ELSE tokens

\* What is returned when the loop ends inside blocks: the root list, with
\* the outermost open block in it, and in it and its blocks every token
\* scanned, each in the list it was appended to
RootIsReturned ==
  EndedInsideBlocks =>
    /\ Flatten(ReturnValue(State)) = nodes
    /\ \A j \in DOMAIN ReturnValue(State) :
         ReturnValue(State)[j].token.parent = 0
    /\ \E j \in DOMAIN ReturnValue(State) :
         ReturnValue(State)[j].token = nodes[OutermostOpen]
    /\ \A k \in DOMAIN stack :
         LET b == IF k = Len(stack) THEN tokens ELSE stack[k + 1].tokens
         IN /\ nodes[b].parent = stack[k].tokens
            /\ Flatten(Content(nodes, b))
                 = SubSeq(nodes, b + 1, Len(nodes))

\* C19: when the input ends while blocks or functions are open, the end of
\* the loop appends nothing (no ParseError for the missing closers), each
\* open block is in its parent's list and holds the children scanned so
\* far, and the root list is what is returned, not the list of the
\* innermost open block.
C19_OpenBlocksAtEnd ==
  /\ []RootIsReturned
  /\ [][(pc = "loop" /\ pos >= Len(css))
          => /\ pc' = "done"
             /\ nodes' = nodes
             /\ stack' = stack /\ tokens' = tokens /\ end_char' = end_char]_vars

\* `[a(a` was scanned: the input ended inside the function inside the `[`
\* block, no error was emitted, and the one token of the returned list is
\* the `[` block
C19_Witness ==
  /\ pc = "done"
  /\ pos = Len(css)
  /\ Len(stack) = 2
  /\ Len(nodes) = 3
  /\ nodes[2].type = "function" /\ nodes[3].type = "ident"
  /\ \A i \in DOMAIN nodes : nodes[i].type # "error"
  /\ Len(ReturnValue(State)) = 1
  /\ ReturnValue(State)[1].token = nodes[1]
  /\ Len(ReturnValue(State)[1].content[1].content) = 1

====
